---- MODULE Spec2Model ----
(***************************************************************************)
(* Model of app.py: NakshatraStockAnalyzer (get_stock_data,                *)
(* simulate_nakshatra_data, generate_prediction) and the "Run Analysis"    *)
(* handler of main().                                                      *)
(*                                                                         *)
(* Numbers.  Python floats are modelled by exact fractions:                *)
(*   - a percentage change is a record [kind, num, den]; kind is "num"     *)
(*     (the value num/den, den > 0), "inf" (x/0 with x > 0) or "nan" (0/0);*)
(*   - nakshatra_factor and transition_factor are integers in units of     *)
(*     1e-4 (np.sin is tabulated to four decimals);                        *)
(*   - combined_score is a fraction num/den in units of 1e-6;              *)
(*   - confidence is a fraction num/den in units of 1e-3 percent.          *)
(* Close prices are non-negative integers.  The direction labels are       *)
(* written without the emoji the source appends to them.                   *)
(***************************************************************************)
EXTENDS Integers, Sequences, FiniteSets, TLC

VARIABLES pc, script, period, interval, analysis_date,
          stock_data, nakshatra_data, prediction, scoring,
          cache, provider_calls, outcome, first_result

vars == <<pc, script, period, interval, analysis_date,
          stock_data, nakshatra_data, prediction, scoring,
          cache, provider_calls, outcome, first_result>>

-----------------------------------------------------------------------------
(* Bounds of the model *)

MaxLen == 6

MaxDay == 12

MaxCalls == 2

(* Close prices a fetched table is built from *)
Closes == {0, 30, 31}

(* Further tables: the two direction breakpoints and a trend of 0.02 *)
ExampleCloses ==
  { <<30, 29>>, <<50, 51>>, <<30, 30, 30, 30, 30, 30, 29>> }

Years == {2023, 2024}

-----------------------------------------------------------------------------
(* Program constants *)

NumNakshatras == 27

(* 0.45, in units of 1e-6 per unit of recent_trend *)
TrendWeight == 450000

(* 0.28 and 0.27 in hundredths: they turn factors in units of 1e-4 into units
   of 1e-6 *)
NakshatraWeight == 28

TransitionWeight == 27

(* 0.12 per transition, in units of 1e-4 *)
TransitionStep == 1200

(* 0.015 in units of 1e-6 *)
Threshold == 15000

(* 50 and 90 percent in units of 1e-3 percent *)
ConfMin == 50000

ConfMax == 90000

nakshatras ==
  << "Ashwini", "Bharani", "Krittika", "Rohini", "Mrigashira", "Ardra",
     "Punarvasu", "Pushya", "Ashlesha", "Magha", "Purva Phalguni",
     "Uttara Phalguni", "Hasta", "Chitra", "Swati", "Vishakha", "Anuradha",
     "Jyeshtha", "Mula", "Purva Ashadha", "Uttara Ashadha", "Shravana",
     "Dhanishta", "Shatabhisha", "Purva Bhadrapada", "Uttara Bhadrapada",
     "Revati" >>

(* self.nakshatras[i], the list being 0-based in the source *)
Nakshatra(i) == nakshatras[i + 1]

(* round(sin(i * 2 * pi / 27) * 1e4), i = 0..26 *)
SinTable ==
  << 0, 2306, 4488, 6428, 8021, 9182, 9848, 9983, 9580, 8660,
     7274, 5495, 3420, 1161, -1161, -3420, -5495, -7274, -8660,
     -9580, -9983, -9848, -9182, -8021, -6428, -4488, -2306 >>

script_mapping(s) ==
  CASE s = "NIFTY 50"    -> "^NSEI"
    [] s = "BANK NIFTY"  -> "^NSEBANK"
    [] s = "RELIANCE"    -> "RELIANCE.NS"
    [] s = "TCS"         -> "TCS.NS"
    [] s = "INFOSYS"     -> "INFY.NS"
    [] s = "HDFC BANK"   -> "HDFCBANK.NS"
    [] s = "TATA MOTORS" -> "TATAMOTORS.NS"
    [] s = "WIPRO"       -> "WIPRO.NS"
    [] s = "ICICI BANK"  -> "ICICIBANK.NS"
    [] s = "SBI"         -> "SBIN.NS"
    [] s = "AXIS BANK"   -> "AXISBANK.NS"
    [] OTHER             -> s

-----------------------------------------------------------------------------
(* Values *)

Abs(x) == IF x < 0 THEN -x ELSE x

Num(n, d) == [kind |-> "num", num |-> n, den |-> d]

NaN == [kind |-> "nan", num |-> 0, den |-> 1]

Inf == [kind |-> "inf", num |-> 1, den |-> 1]

Zero == Num(0, 1)

(* None, and a DataFrame of len(df) rows with or without a Close column *)
NoneValue == [none |-> TRUE, nrows |-> 0, hasClose |-> FALSE, Close |-> <<>>]

DataFrame(closes) ==
  [none |-> FALSE, nrows |-> Len(closes), hasClose |-> TRUE, Close |-> closes]

NoCloseFrame(n) ==
  [none |-> FALSE, nrows |-> n, hasClose |-> FALSE, Close |-> <<>>]

RECURSIVE SeqsOfLen(_, _)
SeqsOfLen(S, n) ==
  IF n = 0 THEN { <<>> }
  ELSE { Append(s, x) : s \in SeqsOfLen(S, n - 1), x \in S }

BoundedSeqs(S, n) == UNION { SeqsOfLen(S, k) : k \in 0..n }

-----------------------------------------------------------------------------
(* simulate_nakshatra_data *)

IsLeap(y) == (y % 4 = 0 /\ y % 100 # 0) \/ y % 400 = 0

DaysInMonth(y, m) ==
  IF m = 2 THEN (IF IsLeap(y) THEN 29 ELSE 28)
  ELSE IF m \in {4, 6, 9, 11} THEN 30 ELSE 31

Dates ==
  { date \in [year : Years, month : 1..12, day : 1..31] :
      date.day <= DaysInMonth(date.year, date.month) }

(* date_obj.timetuple().tm_yday: the ordinal day of the date in its year *)
RECURSIVE DaysBefore(_, _)
DaysBefore(y, m) ==
  IF m = 1 THEN 0 ELSE DaysBefore(y, m - 1) + DaysInMonth(y, m - 1)

tm_yday(date) == DaysBefore(date.year, date.month) + date.day

Transition(time, i, j) ==
  [time |-> time, from |-> Nakshatra(i), to |-> Nakshatra(j)]

(* mutant: the 14:15 event uses index and index + 1 like the 10:30 event *)
SimTransitions_SameIndices(day_of_year, nakshatra_index) ==
  (IF day_of_year % 3 = 0
     THEN << Transition("10:30", nakshatra_index,
                        (nakshatra_index + 1) % NumNakshatras) >>
     ELSE << >>)
  \o
  (IF day_of_year % 4 = 0
     THEN << Transition("14:15", nakshatra_index,
                        (nakshatra_index + 1) % NumNakshatras) >>
     ELSE << >>)

SimTransitions(day_of_year, nakshatra_index) ==
  (IF day_of_year % 3 = 0
     THEN << Transition("10:30", nakshatra_index,
                        (nakshatra_index + 1) % NumNakshatras) >>
     ELSE << >>)
  \o
  (IF day_of_year % 4 = 0
     THEN << Transition("14:15", (nakshatra_index + 1) % NumNakshatras,
                        (nakshatra_index + 2) % NumNakshatras) >>
     ELSE << >>)

(* mutant: the day of the year is counted from 0 *)
NakshatraIndex_ZeroBased(day_of_year) == (day_of_year - 1) % NumNakshatras

NakshatraIndex(day_of_year) == day_of_year % NumNakshatras

simulate_nakshatra_data(date) ==
  LET day_of_year == tm_yday(date)
      nakshatra_index == NakshatraIndex(day_of_year)
  IN [ current_nakshatra |-> Nakshatra(nakshatra_index),
       nakshatra_index   |-> nakshatra_index,
       transitions       |-> SimTransitions(day_of_year, nakshatra_index),
       moon_phase        |-> IF day_of_year % 30 < 15 THEN "Waxing" ELSE "Waning" ]

-----------------------------------------------------------------------------
(* generate_prediction *)

(* Series.pct_change(p): NaN for the first p rows, then c[t]/c[t-p] - 1 *)
PctValue(now, before) ==
  IF before = 0
    THEN (IF now = 0 THEN NaN ELSE Inf)
    ELSE Num(now - before, before)

pct_change(close, p) ==
  [t \in 1..Len(close) |->
     IF t <= p THEN NaN ELSE PctValue(close[t], close[t - p])]

IsNotNaN(x) == x.kind # "nan"

dropna(s) == SelectSeq(s, IsNotNaN)

(* mutant: the test is "fewer than 1 record" *)
InsufficientData_OffByOne(sd) == sd.none \/ sd.nrows < 1

(* line 83: the short-circuit test *)
InsufficientData(sd) == sd.none \/ sd.nrows < 2

(* mutant: the lookback of the first percentage change is 6 periods *)
RecentTrend_Lookback6(sd) ==
  IF ~sd.hasClose
    THEN [value |-> Zero, branch |-> "except"]
    ELSE
      LET pct5 == dropna(pct_change(sd.Close, 6))
          pct1 == dropna(pct_change(sd.Close, 1))
      IN IF Len(pct5) > 0
           THEN [value |-> pct5[Len(pct5)], branch |-> "pct5"]
           ELSE IF Len(pct1) > 0
                  THEN [value |-> pct1[Len(pct1)], branch |-> "pct1"]
                  ELSE [value |-> Zero, branch |-> "zero"]

(* lines 87-95: the value of recent_trend and the branch that set it *)
RecentTrend(sd) ==
  IF ~sd.hasClose
    THEN [value |-> Zero, branch |-> "except"]
    ELSE
      LET pct5 == dropna(pct_change(sd.Close, 5))
          pct1 == dropna(pct_change(sd.Close, 1))
      IN IF Len(pct5) > 0
           THEN [value |-> pct5[Len(pct5)], branch |-> "pct5"]
           ELSE IF Len(pct1) > 0
                  THEN [value |-> pct1[Len(pct1)], branch |-> "pct1"]
                  ELSE [value |-> Zero, branch |-> "zero"]

(* mutant: the sine is taken of the next index *)
NakshatraFactor_NextIndex(nd) ==
  SinTable[((nd.nakshatra_index + 1) % NumNakshatras) + 1]

NakshatraFactor(nd) == SinTable[nd.nakshatra_index + 1]

TransitionFactor(nd) == Len(nd.transitions) * TransitionStep

(* recent_trend * 0.45 + nakshatra_factor * 0.28 + transition_factor * 0.27,
   as num/den in units of 1e-6 *)
CombinedScore(rt, nf, tf) ==
  IF rt.kind = "inf"
    THEN Inf
    ELSE Num(rt.num * TrendWeight
               + rt.den * (nf * NakshatraWeight + tf * TransitionWeight),
             rt.den)

(* mutant: the breakpoints belong to BULLISH and BEARISH *)
Direction_Inclusive(cs) ==
  IF cs.kind = "inf" \/ cs.num >= Threshold * cs.den
    THEN "BULLISH"
    ELSE IF cs.num <= (-Threshold) * cs.den
           THEN "BEARISH"
           ELSE "NEUTRAL"

Direction(cs) ==
  IF cs.kind = "inf" \/ cs.num > Threshold * cs.den
    THEN "BULLISH"
    ELSE IF cs.num < (-Threshold) * cs.den
           THEN "BEARISH"
           ELSE "NEUTRAL"

(* abs(combined_score) * 1000 + 50, as num/den in units of 1e-3 *)
RawConf(cs) ==
  IF cs.kind = "inf" THEN Inf
  ELSE Num(Abs(cs.num) + ConfMin * cs.den, cs.den)

(* mutant: only the lower bound is applied *)
Clip_NoUpper(raw) ==
  IF raw.kind = "inf" THEN raw
  ELSE IF raw.num < ConfMin * raw.den THEN Num(ConfMin, 1)
  ELSE raw

(* float(np.clip(raw_conf, 50, 90)) *)
Clip(raw) ==
  IF raw.kind = "inf" THEN Num(ConfMax, 1)
  ELSE IF raw.num < ConfMin * raw.den THEN Num(ConfMin, 1)
  ELSE IF raw.num > ConfMax * raw.den THEN Num(ConfMax, 1)
  ELSE raw

Confidence(cs) == Clip(RawConf(cs))

(* mutant: the impact follows the transition's own starting index *)
Impact_PerTransition(nd, transition) ==
  LET i == IF transition.time = "10:30"
             THEN nd.nakshatra_index
             ELSE (nd.nakshatra_index + 1) % NumNakshatras
  IN IF i % 3 = 0 THEN "Volatile" ELSE "Moderate"

Impact(nd, transition) ==
  IF nd.nakshatra_index % 3 = 0 THEN "Volatile" ELSE "Moderate"

KeyTimes(nd) ==
  [k \in 1..Len(nd.transitions) |->
     [ time            |-> nd.transitions[k].time,
       expected_impact |-> Impact(nd, nd.transitions[k]),
       period          |-> nd.transitions[k].from \o " → " \o nd.transitions[k].to ]]

(* f"{x:.2%}": x * 100 to two decimals, ties to even *)
FormatPercent(x) ==
  IF x.kind = "inf" THEN "inf%"
  ELSE
    LET a == Abs(x.num) * 10000
        q == a \div x.den
        r == a % x.den
        h == IF 2 * r > x.den \/ (2 * r = x.den /\ q % 2 = 1) THEN q + 1 ELSE q
        frac == h % 100
    IN (IF x.num < 0 THEN "-" ELSE "") \o ToString(h \div 100) \o "."
         \o (IF frac < 10 THEN "0" ELSE "") \o ToString(frac) \o "%"

Reasoning(rt, nd) ==
  "Recent trend: " \o FormatPercent(rt) \o ", Nakshatra: "
    \o nd.current_nakshatra \o ", Transitions: "
    \o ToString(Len(nd.transitions))

NoLocals ==
  [ computed |-> FALSE, branch |-> "none", recent_trend |-> Zero,
    nakshatra_factor |-> 0, transition_factor |-> 0, combined_score |-> Zero ]

NoPrediction ==
  [ direction |-> "", confidence |-> Zero, key_times |-> << >>, reasoning |-> "" ]

(* the returned dict, and the locals of the call *)
generate_prediction(sd, nd) ==
  IF InsufficientData(sd)
    THEN [ result |-> [ direction  |-> "NEUTRAL",
                        confidence |-> Num(ConfMin, 1),
                        key_times  |-> << >>,
                        reasoning  |-> "Insufficient data" ],
           locals |-> NoLocals ]
    ELSE
      LET trend == RecentTrend(sd)
          recent_trend == trend.value
          nakshatra_factor == NakshatraFactor(nd)
          transition_factor == TransitionFactor(nd)
          combined_score ==
            CombinedScore(recent_trend, nakshatra_factor, transition_factor)
      IN [ result |-> [ direction  |-> Direction(combined_score),
                        confidence |-> Confidence(combined_score),
                        key_times  |-> KeyTimes(nd),
                        reasoning  |-> Reasoning(recent_trend, nd) ],
           locals |-> [ computed |-> TRUE, branch |-> trend.branch,
                        recent_trend |-> recent_trend,
                        nakshatra_factor |-> nakshatra_factor,
                        transition_factor |-> transition_factor,
                        combined_score |-> combined_score ] ]

-----------------------------------------------------------------------------
(* get_stock_data and its memoization (st.cache_data) *)

Scripts == {"NIFTY 50", "TCS"}

Periods == {"6mo"}

Intervals == {"1d", "1wk"}

(* the arguments of a call, which are the key of the memoized result *)
Keys == Scripts \X Periods \X Intervals

(* what yf.download is asked for *)
Requests == { <<script_mapping(k[1]), k[2], k[3]>> : k \in Keys }

Request(key) == <<script_mapping(key[1]), key[2], key[3]>>

(* what yf.download does: raise, return None, or return a table *)
FetchedTables == { DataFrame(<<30>>), DataFrame(<<30, 31>>) }

ProviderOutcomes ==
  { [kind |-> "raise", data |-> NoneValue],
    [kind |-> "null",  data |-> NoneValue],
    [kind |-> "empty", data |-> DataFrame(<< >>)] }
  \cup { [kind |-> "table", data |-> t] : t \in FetchedTables }

IsEmpty(df) == df.nrows = 0

(* mutant: no try/except around the download *)
get_stock_data_NoTry(o) ==
  IF o.kind = "raise"
    THEN [raised |-> TRUE, value |-> NoneValue]
    ELSE IF o.data.none \/ o.data.nrows = 0
           THEN [raised |-> FALSE, value |-> NoneValue]
           ELSE [raised |-> FALSE, value |-> o.data]

(* lines 51-61: the body of get_stock_data on one answer of the provider *)
get_stock_data(o) ==
  IF o.kind = "raise"
    THEN [raised |-> FALSE, value |-> NoneValue]
    ELSE IF o.data.none \/ IsEmpty(o.data)
           THEN [raised |-> FALSE, value |-> NoneValue]
           ELSE [raised |-> FALSE, value |-> o.data]

EmptyCache == [k \in Keys |-> [present |-> FALSE, value |-> NoneValue]]

(* mutant: a None result is not memoized *)
CacheStore_SkipNone(c, key, value) ==
  IF value.none THEN c ELSE [c EXCEPT ![key] = [present |-> TRUE, value |-> value]]

CacheStore(c, key, value) ==
  [c EXCEPT ![key] = [present |-> TRUE, value |-> value]]

CacheHit(c, key) == c[key].present

(* what the first call of get_stock_data with each key returned *)
NoResults == [k \in Keys |-> [seen |-> FALSE, value |-> NoneValue]]

Returned(f, key, value) ==
  IF f[key].seen THEN f ELSE [f EXCEPT ![key] = [seen |-> TRUE, value |-> value]]

-----------------------------------------------------------------------------
(* The "Run Analysis" handler of main(), lines 143-147 *)

SampleDates ==
  { date \in Dates : date.year = 2024 /\ date.month = 1 /\ date.day <= MaxDay }

NoSignal ==
  [ current_nakshatra |-> "", nakshatra_index |-> 0, transitions |-> << >>,
    moon_phase |-> "" ]

Key == <<script, period, interval>>

Init ==
  /\ pc = "idle"
  /\ script = "NIFTY 50"
  /\ period = "6mo"
  /\ interval = "1d"
  /\ analysis_date \in SampleDates
  /\ stock_data = NoneValue
  /\ nakshatra_data = NoSignal
  /\ prediction = NoPrediction
  /\ scoring = NoLocals
  /\ cache = EmptyCache
  /\ provider_calls = [r \in Requests |-> 0]
  /\ outcome = "none"
  /\ first_result = NoResults

(* the button is pressed with the widgets' current values: the script reruns *)
RunAnalysis ==
  /\ pc \in {"idle", "done"}
  /\ \E s \in Scripts, p \in Periods, i \in Intervals, d \in SampleDates :
       /\ script' = s
       /\ period' = p
       /\ interval' = i
       /\ analysis_date' = d
  /\ pc' = "fetch"
  /\ stock_data' = NoneValue
  /\ nakshatra_data' = NoSignal
  /\ prediction' = NoPrediction
  /\ scoring' = NoLocals
  /\ outcome' = "none"
  /\ UNCHANGED <<cache, provider_calls, first_result>>

(* line 145, the result being memoized: the body does not run *)
GetStockDataCached ==
  /\ pc = "fetch"
  /\ CacheHit(cache, Key)
  /\ stock_data' = cache[Key].value
  /\ outcome' = "cached"
  /\ first_result' = Returned(first_result, Key, cache[Key].value)
  /\ pc' = "simulate"
  /\ UNCHANGED <<script, period, interval, analysis_date, nakshatra_data,
                 prediction, scoring, cache, provider_calls>>

(* line 145, no memoized result: the body runs and calls the provider *)
GetStockDataFetch ==
  /\ pc = "fetch"
  /\ ~CacheHit(cache, Key)
  /\ provider_calls[Request(Key)] < MaxCalls
  /\ \E o \in ProviderOutcomes :
       LET r == get_stock_data(o)
       IN /\ outcome' = o.kind
          /\ provider_calls' =
               [provider_calls EXCEPT ![Request(Key)] = @ + 1]
          /\ IF r.raised
               THEN /\ pc' = "crashed"
                    /\ UNCHANGED <<stock_data, cache, first_result>>
               ELSE /\ pc' = "simulate"
                    /\ stock_data' = r.value
                    /\ cache' = CacheStore(cache, Key, r.value)
                    /\ first_result' = Returned(first_result, Key, r.value)
  /\ UNCHANGED <<script, period, interval, analysis_date, nakshatra_data,
                 prediction, scoring>>

(* line 146 *)
SimulateNakshatra ==
  /\ pc = "simulate"
  /\ nakshatra_data' = simulate_nakshatra_data(analysis_date)
  /\ pc' = "score"
  /\ UNCHANGED <<script, period, interval, analysis_date, stock_data,
                 prediction, scoring, cache, provider_calls, outcome,
                 first_result>>

(* line 147 *)
GeneratePrediction ==
  /\ pc = "score"
  /\ LET r == generate_prediction(stock_data, nakshatra_data)
     IN /\ prediction' = r.result
        /\ scoring' = r.locals
  /\ pc' = "done"
  /\ UNCHANGED <<script, period, interval, analysis_date, stock_data,
                 nakshatra_data, cache, provider_calls, outcome,
                 first_result>>

Next ==
  \/ RunAnalysis
  \/ GetStockDataCached
  \/ GetStockDataFetch
  \/ SimulateNakshatra
  \/ GeneratePrediction

Spec == Init /\ [][Next]_vars

-----------------------------------------------------------------------------
(* simulate_nakshatra_data followed by generate_prediction, for every date *)

SimTables ==
  { NoneValue, DataFrame(<<30>>), DataFrame(<<30, 31>>),
    DataFrame(<<30, 30, 30, 30, 30, 31>>) }

InitSim ==
  /\ pc = "simulate"
  /\ script = "NIFTY 50"
  /\ period = "6mo"
  /\ interval = "1d"
  /\ analysis_date \in Dates
  /\ stock_data \in SimTables
  /\ nakshatra_data = NoSignal
  /\ prediction = NoPrediction
  /\ scoring = NoLocals
  /\ cache = EmptyCache
  /\ provider_calls = [r \in Requests |-> 0]
  /\ outcome = "none"
  /\ first_result = NoResults

NextSim ==
  \/ SimulateNakshatra
  \/ GeneratePrediction

SpecSim == InitSim /\ [][NextSim]_vars

-----------------------------------------------------------------------------
(* generate_prediction on every table and every signal within the bounds *)

ScoreTables ==
  { NoneValue }
  \cup { DataFrame(c) : c \in BoundedSeqs(Closes, MaxLen) \cup ExampleCloses }
  \cup { NoCloseFrame(n) : n \in 0..MaxLen }

(* the transition lists a signal of base index i may carry *)
TransitionLists(i) ==
  LET a == Transition("10:30", i, (i + 1) % NumNakshatras)
      b == Transition("14:15", (i + 1) % NumNakshatras, (i + 2) % NumNakshatras)
  IN { << >>, <<a>>, <<b>>, <<a, b>>, <<b, a>> }

Signals ==
  UNION { { [ current_nakshatra |-> Nakshatra(i), nakshatra_index |-> i,
              transitions |-> t, moon_phase |-> "Waxing" ] :
            t \in TransitionLists(i) } : i \in 0..(NumNakshatras - 1) }

InitScore ==
  /\ pc = "score"
  /\ script = "NIFTY 50"
  /\ period = "6mo"
  /\ interval = "1d"
  /\ analysis_date \in { d \in SampleDates : d.day = 1 }
  /\ stock_data \in ScoreTables
  /\ nakshatra_data \in Signals
  /\ prediction = NoPrediction
  /\ scoring = NoLocals
  /\ cache = EmptyCache
  /\ provider_calls = [r \in Requests |-> 0]
  /\ outcome = "none"
  /\ first_result = NoResults

NextScore == GeneratePrediction

SpecScore == InitScore /\ [][NextScore]_vars

-----------------------------------------------------------------------------
(* Properties *)

Unavailable(sd) == sd.none \/ sd.nrows < 2

IsNeutral50(p) ==
  /\ p.direction = "NEUTRAL"
  /\ p.confidence.kind = "num"
  /\ p.confidence.num = 50000 * p.confidence.den
  /\ Len(p.key_times) = 0

(* C1: when the series is None or has fewer than 2 records the result is
   exactly NEUTRAL, 50.0, no key times, "Insufficient data", whatever the
   signal; and that reasoning string is returned for no other input. *)
C1_ShortCircuit ==
  pc = "done" =>
    /\ Unavailable(stock_data) =>
         /\ IsNeutral50(prediction)
         /\ prediction.reasoning = "Insufficient data"
    /\ prediction.reasoning = "Insufficient data" => Unavailable(stock_data)

C1_Witness ==
  /\ pc = "done"
  /\ ~stock_data.none
  /\ stock_data.nrows = 1
  /\ Len(nakshatra_data.transitions) = 2
  /\ prediction.reasoning = "Insufficient data"

(* C2: the confidence lies in [50, 90] and equals
   clamp(|combinedScore| * 1000 + 50, 50, 90), combinedScore being
   recentTrend * 0.45 + nakshatraFactor * 0.28 + transitionFactor * 0.27. *)
C2_Confidence ==
  pc = "done" =>
    LET conf == prediction.confidence
    IN /\ conf.kind = "num"
       /\ conf.den > 0
       /\ 50000 * conf.den <= conf.num
       /\ conf.num <= 90000 * conf.den
       /\ scoring.computed =>
            LET rt == scoring.recent_trend
                nf == scoring.nakshatra_factor
                tf == scoring.transition_factor
            IN IF rt.kind = "inf"
                 THEN conf.num = 90000 * conf.den
                 ELSE
                   LET score == rt.num * 45 * 10000 + rt.den * (nf * 28 + tf * 27)
                       raw == Abs(score) + 50000 * rt.den
                       clamped == IF raw > 90000 * rt.den THEN 90000 * rt.den ELSE raw
                   IN conf.num * rt.den = clamped * conf.den

C2_Witness ==
  /\ pc = "done"
  /\ scoring.computed
  /\ 50000 * prediction.confidence.den < prediction.confidence.num
  /\ prediction.confidence.num < 90000 * prediction.confidence.den

(* C3: with at least 2 records the direction is BULLISH when
   combinedScore > 0.015, BEARISH when combinedScore < -0.015 and NEUTRAL
   otherwise, the two breakpoints included. *)
C3_Direction ==
  (pc = "done" /\ ~Unavailable(stock_data)) =>
    /\ scoring.computed
    /\ LET cs == scoring.combined_score
       IN prediction.direction =
            IF cs.kind = "inf" \/ cs.num > 15000 * cs.den THEN "BULLISH"
            ELSE IF cs.num < (-15000) * cs.den THEN "BEARISH"
            ELSE "NEUTRAL"

C3_Witness ==
  /\ pc = "done"
  /\ scoring.computed
  /\ scoring.combined_score.kind = "num"
  /\ scoring.combined_score.num = 15000 * scoring.combined_score.den
  /\ prediction.direction = "NEUTRAL"

(* C4: the provider is called at most once per (instrument, period,
   interval); every call returns what the first call with the same tuple
   returned, and a result is only returned for a tuple whose own request
   the provider has answered. *)
C4_Memoized ==
  /\ \A r \in Requests : provider_calls[r] <= 1
  /\ \A k \in Keys : first_result[k].seen => provider_calls[Request(k)] = 1
  /\ pc \in {"simulate", "score", "done"} =>
       /\ first_result[Key].seen
       /\ stock_data = first_result[Key].value

C4_Witness ==
  /\ pc = "simulate"
  /\ outcome = "cached"
  /\ stock_data = NoneValue
  /\ \E k \in Keys : k # Key /\ first_result[k].seen /\ ~first_result[k].value.none

(* C5: when the provider raises or returns an empty or null table,
   get_stock_data returns None and no exception reaches the caller; the run
   goes on through simulation and scoring, the signal is the one of the
   date, and the prediction is the neutral "Insufficient data" one. *)
C5_FetchFailure ==
  /\ pc # "crashed"
  /\ outcome \in {"raise", "null", "empty"} =>
       /\ pc \in {"simulate", "score", "done"}
       /\ stock_data = NoneValue
       /\ pc = "simulate" => ENABLED SimulateNakshatra
       /\ pc = "score" => ENABLED GeneratePrediction
       /\ pc \in {"score", "done"} =>
            nakshatra_data = simulate_nakshatra_data(analysis_date)
       /\ pc = "done" =>
            /\ IsNeutral50(prediction)
            /\ prediction.reasoning = "Insufficient data"

C5_Witness ==
  /\ pc = "done"
  /\ outcome = "raise"
  /\ prediction.reasoning = "Insufficient data"
  /\ Len(nakshatra_data.transitions) = 2

(* C6: index = day_of_year mod 27; the transitions are the 10:30 event
   label[index] -> label[index+1] iff day_of_year mod 3 = 0, followed by the
   14:15 event label[index+1] -> label[index+2] iff day_of_year mod 4 = 0
   (indices mod 27). *)
C6_Simulate ==
  pc \in {"score", "done"} =>
    LET d == tm_yday(analysis_date)
        i == nakshatra_data.nakshatra_index
        tr == nakshatra_data.transitions
        e1 == [time |-> "10:30", from |-> nakshatras[i + 1],
               to |-> nakshatras[((i + 1) % 27) + 1]]
        e2 == [time |-> "14:15", from |-> nakshatras[((i + 1) % 27) + 1],
               to |-> nakshatras[((i + 2) % 27) + 1]]
    IN /\ d \in 1..366
       /\ i = d % 27
       /\ i \in 0..26
       /\ Len(tr) \in 0..2
       /\ tr = (IF d % 3 = 0 THEN <<e1>> ELSE << >>)
                 \o (IF d % 4 = 0 THEN <<e2>> ELSE << >>)

C6_Witness ==
  /\ pc = "score"
  /\ tm_yday(analysis_date) = 80
  /\ nakshatra_data.nakshatra_index = 26
  /\ nakshatra_data.transitions =
       << [time |-> "14:15", from |-> "Ashwini", to |-> "Bharani"] >>

C7_Case ==
  /\ pc = "done"
  /\ scoring.computed
  /\ nakshatra_data.nakshatra_index = 12
  /\ Len(nakshatra_data.transitions) = 2
  /\ scoring.recent_trend.kind = "num"
  /\ scoring.recent_trend.num * 50 = scoring.recent_trend.den

(* C7 as stated: index 12, two transitions, recentTrend 0.02 give
   nakshatraFactor ~ 0.878, transitionFactor 0.24, combinedScore ~ 0.3105,
   BULLISH, 90.0 *)
C7_AsStated ==
  C7_Case =>
    LET cs == scoring.combined_score
    IN /\ scoring.nakshatra_factor \in 8775..8785
       /\ scoring.transition_factor = 2400
       /\ 310450 * cs.den <= cs.num /\ cs.num <= 310550 * cs.den
       /\ prediction.direction = "BULLISH"
       /\ prediction.confidence.num = 90000 * prediction.confidence.den

(* C7 amended: index 12, two transitions, recentTrend 0.02 give
   nakshatraFactor = sin(12*2pi/27) ~ 0.342, transitionFactor 0.24,
   combinedScore ~ 0.1696, BULLISH, 90.0 *)
C7_Example ==
  C7_Case =>
    LET cs == scoring.combined_score
    IN /\ scoring.nakshatra_factor \in 3415..3425
       /\ scoring.transition_factor = 2400
       /\ 169550 * cs.den <= cs.num /\ cs.num <= 169650 * cs.den
       /\ prediction.direction = "BULLISH"
       /\ prediction.confidence.num = 90000 * prediction.confidence.den

C7_Witness ==
  /\ C7_Case
  /\ stock_data.Close = <<50, 51>>
  /\ nakshatra_data.transitions[1].time = "10:30"
  /\ nakshatra_data.transitions[1].from = "Hasta"
  /\ nakshatra_data.transitions[2].to = "Swati"

NonZeroCloses(sd) ==
  /\ ~sd.none
  /\ sd.hasClose
  /\ sd.nrows >= 2
  /\ \A t \in 1..Len(sd.Close) : sd.Close[t] # 0

(* C8: for n >= 2 records with non-zero closes, recentTrend is the
   5-period change of the last close when n >= 6 and the 1-period change
   when 2 <= n <= 5; the 0.0 default is never used. *)
C8_RecentTrend ==
  (pc = "done" /\ NonZeroCloses(stock_data)) =>
    LET c == stock_data.Close
        n == Len(c)
        back == IF n >= 6 THEN 5 ELSE 1
        rt == scoring.recent_trend
    IN /\ scoring.computed
       /\ scoring.branch = (IF n >= 6 THEN "pct5" ELSE "pct1")
       /\ rt.kind = "num"
       /\ rt.num * c[n - back] = (c[n] - c[n - back]) * rt.den

C8_Witness ==
  /\ pc = "done"
  /\ NonZeroCloses(stock_data)
  /\ stock_data.nrows = 6
  /\ stock_data.Close[6] # stock_data.Close[1]
  /\ stock_data.Close[6] = stock_data.Close[5]
  /\ scoring.branch = "pct5"
  /\ scoring.recent_trend.num # 0

(* C9: with at least 2 records, keyTimes has one entry per transition, in
   order, with the transition's time and "<from> → <to>", and the same
   impact throughout: "Volatile" when index mod 3 = 0, else "Moderate". *)
C9_KeyTimes ==
  (pc = "done" /\ ~Unavailable(stock_data)) =>
    LET tr == nakshatra_data.transitions
        kt == prediction.key_times
        impact == IF nakshatra_data.nakshatra_index % 3 = 0
                    THEN "Volatile" ELSE "Moderate"
    IN /\ Len(kt) = Len(tr)
       /\ \A k \in 1..Len(tr) :
            /\ kt[k].time = tr[k].time
            /\ kt[k].period = tr[k].from \o " → " \o tr[k].to
            /\ kt[k].expected_impact = impact

C9_Witness ==
  /\ pc = "done"
  /\ ~Unavailable(stock_data)
  /\ Len(prediction.key_times) = 2
  /\ prediction.key_times[1].time = "14:15"
  /\ prediction.key_times[1].period = "Revati → Ashwini"
  /\ prediction.key_times[2].expected_impact = "Moderate"

(* C10: for the signal of a date, the key times are "Volatile" iff the
   signal has a 10:30 transition; a 10:30 key time is never "Moderate", two
   key times are both "Volatile", "Moderate" appears only on a lone 14:15
   key time, and the 10:30 transition starts at an index of at most 24. *)
C10_ImpactFollowsDate ==
  (pc = "done" /\ ~Unavailable(stock_data)) =>
    LET tr == nakshatra_data.transitions
        kt == prediction.key_times
        i == nakshatra_data.nakshatra_index
        has1030 == \E k \in 1..Len(tr) : tr[k].time = "10:30"
    IN /\ \A k \in 1..Len(kt) :
            /\ kt[k].expected_impact = "Volatile" <=> has1030
            /\ kt[k].time = "10:30" => kt[k].expected_impact = "Volatile"
            /\ kt[k].expected_impact = "Moderate" =>
                 (Len(kt) = 1 /\ kt[k].time = "14:15")
       /\ Len(kt) = 2 =>
            /\ kt[1].expected_impact = "Volatile"
            /\ kt[2].expected_impact = "Volatile"
       /\ has1030 =>
            /\ i <= 24
            /\ tr[1].time = "10:30"
            /\ tr[1].from = nakshatras[i + 1]
            /\ tr[1].to = nakshatras[i + 2]

C10_Witness ==
  /\ pc = "done"
  /\ ~Unavailable(stock_data)
  /\ Len(prediction.key_times) = 1
  /\ prediction.key_times[1].time = "14:15"
  /\ prediction.key_times[1].expected_impact = "Moderate"

====
